---- MODULE Spec2Model ----
(***************************************************************************)
(* The resolution pipeline of the DNS-over-HTTPS forwarding resolver:      *)
(* DOHProxy (src/src/doh/proxy.rs) with its local-domain table             *)
(* (src/src/doh/localdomain.rs), the response cache, the upstream DoH      *)
(* transaction, the periodic purger and a clock.                           *)
(*                                                                         *)
(* A DNS message is a record                                               *)
(*   [id, message_type, response_code, authoritative,                      *)
(*    queries, answers, name_servers, additionals]                         *)
(* whose queries are records [name, query_type, query_class] and whose     *)
(* resource records are represented by their TTL (seconds), the only       *)
(* field of a record the proxy reads or writes.  A name is a tuple of      *)
(* characters.  Option<T> is a tuple: <<>> is None and <<x>> is Some(x).   *)
(***************************************************************************)
EXTENDS Integers, Sequences, FiniteSets, TLC

VARIABLES
    configuration,       \* DOHProxy.configuration, read from the configuration file
    clock,               \* Instant::now(), in whole seconds
    local_domain_cache,  \* LocalDomainCache.cache : key -> template message
    cache,               \* Cache : entries in insertion order, oldest first
    cache_hits,          \* Metrics.cache_hits
    cache_misses,        \* Metrics.cache_misses
    upstream_errors,     \* Metrics.upstream_errors: the counter of upstream failures
                         \* of spec.md 4.7; proxy.rs makes no call that changes it
    requests,            \* request buffers handed to the proxy so far
    pc,                  \* per handler: position in process_request_packet_buffer
    request,             \* per handler: Option<buffer>, the request being processed
    cache_object,        \* per handler: Option<CacheObject> (copy from get / object to put)
    doh_response,        \* per handler: Option<Message>, what make_doh_request returned
    completed            \* Option: the request the last step completed, with its
                         \* response message, the path it took and the reply buffer

vars == <<configuration, clock, local_domain_cache, cache, cache_hits, cache_misses,
          upstream_errors, requests, pc, request, cache_object, doh_response,
          completed>>

-----------------------------------------------------------------------------
(* Bounds of the model.                                                    *)

MaxTime == 2

MaxRequests == 2

MaxRecords == 2

MaxRecordsConcurrent == 1
(* The requests handed to the proxy in a behaviour of SpecOrder.           *)
MaxRequestsOrder == 3

-----------------------------------------------------------------------------
(* Values.                                                                 *)

Handlers == {"h1", "h2"}

None == <<>>

Some(x) == <<x>>

IsSome(o) == Len(o) = 1

Unwrap(o) == o[1]

Min(a, b) == IF a < b THEN a ELSE b

Max(a, b) == IF a > b THEN a ELSE b

SeqsUpTo(S, n) == UNION {[1..k -> S] : k \in 0..n}

Configuration(size, purges, lo, hi) ==
    [max_size |-> size, max_purges_per_timer_pop |-> purges,
     clamp_min_ttl_seconds |-> lo, clamp_max_ttl_seconds |-> hi]

LocalName == <<"l">>

Query(name) == [name |-> name, query_type |-> "A", query_class |-> "IN"]

(* The transaction id of the requests each handler is given.               *)
RequestIdOf == [h \in Handlers |-> IF h = "h1" THEN 1 ELSE 2]

ResponseCodes == {"NoError", "NXDomain", "ServFail"}

RequestMessage(id, queries) ==
    [id |-> id, message_type |-> "Query", response_code |-> "NoError",
     authoritative |-> FALSE, queries |-> queries,
     answers |-> <<>>, name_servers |-> <<>>, additionals |-> <<>>]

(* The wire codec is the library's: a buffer is either the encoding of a   *)
(* message or bytes that do not decode.                                    *)
Garbage == [wire |-> "garbage", message |-> <<>>]

Wire(m) == [wire |-> "dns", message |-> <<m>>]

(* The request buffers handler h can be given: bytes that do not decode, a *)
(* request without queries, and a query for each of the names.             *)
RequestBuffersOf(h, names) ==
    {Garbage, Wire(RequestMessage(RequestIdOf[h], <<>>))}
    \cup {Wire(RequestMessage(RequestIdOf[h], <<Query(n)>>)) : n \in names}

-----------------------------------------------------------------------------
(* The request key (crate::doh::cache::get_cache_key, CacheKey::valid).    *)

UpperChars == <<"A", "B", "C", "D", "E", "F", "G", "H", "I", "J", "K", "L", "M",
                "N", "O", "P", "Q", "R", "S", "T", "U", "V", "W", "X", "Y", "Z">>

LowerChars == <<"a", "b", "c", "d", "e", "f", "g", "h", "i", "j", "k", "l", "m",
                "n", "o", "p", "q", "r", "s", "t", "u", "v", "w", "x", "y", "z">>

LowerChar(c) ==
    IF \E i \in 1..Len(UpperChars) : UpperChars[i] = c
    THEN LowerChars[CHOOSE i \in 1..Len(UpperChars) : UpperChars[i] = c]
    ELSE c

LowerName(name) == [i \in 1..Len(name) |-> LowerChar(name[i])]

ValidName(name) ==
    \A i \in 1..Len(name) :
        \E j \in 1..Len(LowerChars) : LowerChar(name[i]) = LowerChars[j]

(* get_cache_key with the owner name taken as it is written.              *)
get_cache_key_CaseSensitive(message) ==
    LET q == message.queries[1]
    IN  [name |-> q.name, query_type |-> q.query_type,
         query_class |-> q.query_class]

(* The key of a message with at least one query: the first query's owner   *)
(* name in lower case, its type and its class.                             *)
get_cache_key(message) ==
    LET q == message.queries[1]
    IN  [name |-> LowerName(q.name), query_type |-> q.query_type,
         query_class |-> q.query_class]

valid(cache_key) == ValidName(cache_key.name)

-----------------------------------------------------------------------------
(* The local-domain table (localdomain.rs).                                *)

LocalTtl == 3

ForwardDomainConfigurations == {[name |-> LocalName, ttl_seconds |-> LocalTtl]}

forward_domain_configuration_to_message(c) ==
    [id |-> 0, message_type |-> "Response", response_code |-> "NoError",
     authoritative |-> TRUE, queries |-> <<Query(c.name)>>,
     answers |-> <<c.ttl_seconds>>, name_servers |-> <<>>, additionals |-> <<>>]

LocalDomainCache_new ==
    LET msgs == {forward_domain_configuration_to_message(c) :
                    c \in ForwardDomainConfigurations}
    IN  [k \in {get_cache_key(m) : m \in msgs} |->
            CHOOSE m \in msgs : get_cache_key(m) = k]

(* TableAfterLookup when the id of the request is written to the stored    *)
(* message instead of a clone of it.                                       *)
TableAfterLookup_InPlace(table, request_key, request_id) ==
    IF request_key \in DOMAIN table
    THEN [table EXCEPT ![request_key].id = request_id]
    ELSE table

(* get_response_message takes &self and returns a clone of the stored      *)
(* message: the lookup result, and the table the lookup leaves behind.     *)
get_response_message(table, request_key) ==
    IF request_key \in DOMAIN table THEN Some(table[request_key]) ELSE None

TableAfterLookup(table, request_key, request_id) == table

get_message_for_local_domain(table, cache_key, request_id) ==
    LET found == get_response_message(table, cache_key)
    IN  IF found = None THEN None
        ELSE Some([Unwrap(found) EXCEPT !.id = request_id])

-----------------------------------------------------------------------------
(* The response cache (crate::doh::cache).                                 *)

CacheObject_new(message, now, duration) ==
    [message |-> message, cache_time |-> now, cache_duration |-> duration]

expired(object, now) == now - object.cache_time >= object.cache_duration

duration_in_cache(object, now) == now - object.cache_time

RECURSIVE Without(_, _)
Without(entries, key) ==
    IF entries = <<>> THEN <<>>
    ELSE IF Head(entries).key = key THEN Without(Tail(entries), key)
    ELSE <<Head(entries)>> \o Without(Tail(entries), key)

RECURSIVE EvictOldest(_, _)
EvictOldest(entries, limit) ==
    IF Len(entries) > limit THEN EvictOldest(Tail(entries), limit) ELSE entries

Cache_get(entries, key) ==
    IF \E i \in 1..Len(entries) : entries[i].key = key
    THEN Some(entries[CHOOSE i \in 1..Len(entries) : entries[i].key = key].object)
    ELSE None

Cache_put(entries, key, object, max_size) ==
    EvictOldest(Append(Without(entries, key), [key |-> key, object |-> object]),
                max_size)

(* periodic_purge: scan in insertion order, remove the entries expired at  *)
(* now, stop after max_purges_per_timer_pop removals.                      *)
RECURSIVE PurgeScan(_, _, _)
PurgeScan(entries, now, budget) ==
    IF entries = <<>> \/ budget = 0 THEN entries
    ELSE IF expired(Head(entries).object, now)
         THEN PurgeScan(Tail(entries), now, budget - 1)
         ELSE <<Head(entries)>> \o PurgeScan(Tail(entries), now, budget)

(* Cache_periodic_purge when the bound counts the entries inspected, not   *)
(* the entries removed.                                                    *)
Cache_periodic_purge_BoundsInspections(entries, now, max_purges_per_timer_pop) ==
    LET inspected == Min(max_purges_per_timer_pop, Len(entries))
        Live(e) == ~expired(e.object, now)
        after == SelectSeq(SubSeq(entries, 1, inspected), Live)
                    \o SubSeq(entries, inspected + 1, Len(entries))
    IN  [entries |-> after, cache_len |-> Len(after),
         cache_items_purged |-> Len(entries) - Len(after)]

(* Cache_periodic_purge when the scan stops at the first entry that is not *)
(* expired, as if insertion order were expiry order.                       *)
Cache_periodic_purge_StopsAtFirstLive(entries, now, max_purges_per_timer_pop) ==
    LET leading == Cardinality({i \in 1..Len(entries) :
                        \A j \in 1..i : expired(entries[j].object, now)})
        removed == Min(leading, max_purges_per_timer_pop)
        after == SubSeq(entries, removed + 1, Len(entries))
    IN  [entries |-> after, cache_len |-> Len(after),
         cache_items_purged |-> removed]

Cache_periodic_purge(entries, now, max_purges_per_timer_pop) ==
    LET after == PurgeScan(entries, now, max_purges_per_timer_pop)
    IN  [entries |-> after, cache_len |-> Len(after),
         cache_items_purged |-> Len(entries) - Len(after)]

-----------------------------------------------------------------------------
(* DOHProxy: the pure parts (proxy.rs).                                    *)

(* build_failure_response_message without line 90, the set_response_code.  *)
build_failure_response_message_NoResponseCode(req) ==
    [req EXCEPT !.message_type = "Response"]

(* build_failure_response_message without line 89, the set_message_type.   *)
build_failure_response_message_NoMessageType(req) ==
    [req EXCEPT !.response_code = "ServFail"]

(* DOHProxy::build_failure_response_message, lines 87-92.                  *)
build_failure_response_message(req) ==
    [req EXCEPT !.message_type = "Response", !.response_code = "ServFail"]

(* doh_request_message without line 106, the set_id(0).                    *)
doh_request_message_KeepsId(request_message) == request_message

(* make_doh_request, lines 105-106: the message sent upstream.             *)
doh_request_message(request_message) == [request_message EXCEPT !.id = 0]

(* ClampedTtl without line 161, the clamp to clamp_max_ttl_seconds.        *)
ClampedTtl_NoUpperClamp(ttl, clamp_min_ttl_seconds, clamp_max_ttl_seconds) ==
    Max(ttl, clamp_min_ttl_seconds)

(* ClampedTtl raising the TTL by clamp_min_ttl_seconds instead of to it.   *)
ClampedTtl_RaisesByMin(ttl, clamp_min_ttl_seconds, clamp_max_ttl_seconds) ==
    Min(ttl + clamp_min_ttl_seconds, clamp_max_ttl_seconds)

(* process_record: the clamped TTL of one record.                          *)
ClampedTtl(ttl, clamp_min_ttl_seconds, clamp_max_ttl_seconds) ==
    Min(Max(ttl, clamp_min_ttl_seconds), clamp_max_ttl_seconds)

(* process_record applied to the records of one section in order; st is    *)
(* the closure's captured state (found_record_ttl, record_min_ttl_seconds).*)
RECURSIVE process_records(_, _, _)
process_records(records, st, config) ==
    IF records = <<>> THEN [records |-> <<>>, st |-> st]
    ELSE LET ttl  == ClampedTtl(Head(records), config.clamp_min_ttl_seconds,
                                config.clamp_max_ttl_seconds)
             st1  == IF (~st.found_record_ttl) \/ (ttl < st.record_min_ttl_seconds)
                     THEN [found_record_ttl |-> TRUE, record_min_ttl_seconds |-> ttl]
                     ELSE st
             rest == process_records(Tail(records), st1, config)
         IN  [records |-> <<ttl>> \o rest.records, st |-> rest.st]

(* ClampInitialState with the minimum starting at 0 instead of             *)
(* clamp_min_ttl_seconds.                                                  *)
ClampInitialState_Zero(config) ==
    [found_record_ttl |-> FALSE, record_min_ttl_seconds |-> 0]

(* Lines 154-155: the closure's state before the first record.             *)
ClampInitialState(config) ==
    [found_record_ttl |-> FALSE,
     record_min_ttl_seconds |-> config.clamp_min_ttl_seconds]

(* The message with every record clamped, and the returned minimum.        *)
clamp_and_get_min_ttl_seconds(response_message, config) ==
    LET a == process_records(response_message.answers, ClampInitialState(config), config)
        n == process_records(response_message.name_servers, a.st, config)
        x == process_records(response_message.additionals, n.st, config)
    IN  [message |-> [response_message EXCEPT !.answers = a.records,
                                              !.name_servers = n.records,
                                              !.additionals = x.records],
         min_ttl_seconds |-> x.st.record_min_ttl_seconds]

(* The response codes clamp_ttl_and_cache_response goes on with.           *)
CacheableResponseCode(response_code) ==
    (response_code = "NoError") \/ (response_code = "NXDomain")

(* clamp_ttl_and_cache_response without lines 203-205, the check of        *)
(* cache_key.valid().                                                      *)
clamp_ttl_and_cache_response_NoValidCheck(cache_key, response_message, now, config) ==
    IF ~CacheableResponseCode(response_message.response_code)
    THEN [message |-> response_message, put |-> None]
    ELSE LET c == clamp_and_get_min_ttl_seconds(response_message, config)
         IN  IF c.min_ttl_seconds = 0 THEN [message |-> c.message, put |-> None]
             ELSE [message |-> c.message,
                   put |-> Some(CacheObject_new(c.message, now, c.min_ttl_seconds))]

(* clamp_ttl_and_cache_response making the cache object of the response   *)
(* as it came from the upstream, before the clamp of line 194.             *)
clamp_ttl_and_cache_response_CachesUnclamped(cache_key, response_message, now, config) ==
    IF ~CacheableResponseCode(response_message.response_code)
    THEN [message |-> response_message, put |-> None]
    ELSE LET c == clamp_and_get_min_ttl_seconds(response_message, config)
         IN  IF c.min_ttl_seconds = 0 THEN [message |-> c.message, put |-> None]
             ELSE IF ~valid(cache_key) THEN [message |-> c.message, put |-> None]
             ELSE [message |-> c.message,
                   put |-> Some(CacheObject_new(response_message, now,
                                                c.min_ttl_seconds))]

(* clamp_ttl_and_cache_response up to the put: the message it returns and, *)
(* when it decides to cache, the object it puts (made at time now).        *)
clamp_ttl_and_cache_response(cache_key, response_message, now, config) ==
    IF ~CacheableResponseCode(response_message.response_code)
    THEN [message |-> response_message, put |-> None]
    ELSE LET c == clamp_and_get_min_ttl_seconds(response_message, config)
         IN  IF c.min_ttl_seconds = 0 THEN [message |-> c.message, put |-> None]
             ELSE IF ~valid(cache_key) THEN [message |-> c.message, put |-> None]
             ELSE [message |-> c.message,
                   put |-> Some(CacheObject_new(c.message, now, c.min_ttl_seconds))]

(* adjust_records with line 257 adding the seconds in the cache to the TTL *)
(* instead of subtracting them.                                            *)
adjust_records_Adds(records, seconds_to_subtract_from_ttl, ok) ==
    [records |-> [i \in 1..Len(records) |->
                    IF seconds_to_subtract_from_ttl > records[i] THEN records[i]
                    ELSE records[i] + seconds_to_subtract_from_ttl],
     ok |-> ok /\ \A i \in 1..Len(records) :
                    seconds_to_subtract_from_ttl <= records[i]]

(* adjust_records without line 269, the set_ttl of the adjusted TTL.       *)
adjust_records_NoSetTtl(records, seconds_to_subtract_from_ttl, ok) ==
    [records |-> records,
     ok |-> ok /\ \A i \in 1..Len(records) :
                    seconds_to_subtract_from_ttl <= records[i]]

(* adjust_records with the comparison of line 254 as >=: a record whose    *)
(* TTL equals the seconds in the cache clears the flag as well.            *)
adjust_records_DemotesAtZero(records, seconds_to_subtract_from_ttl, ok) ==
    [records |-> [i \in 1..Len(records) |->
                    IF seconds_to_subtract_from_ttl >= records[i] THEN records[i]
                    ELSE records[i] - seconds_to_subtract_from_ttl],
     ok |-> ok /\ \A i \in 1..Len(records) :
                    seconds_to_subtract_from_ttl < records[i]]

(* adjust_record_ttl applied to the records of one section in order; ok is *)
(* the closure's captured flag.  A record older than its TTL is left as it *)
(* is and clears the flag.                                                 *)
RECURSIVE adjust_records(_, _, _)
adjust_records(records, seconds_to_subtract_from_ttl, ok) ==
    IF records = <<>> THEN [records |-> <<>>, ok |-> ok]
    ELSE LET original_ttl == Head(records)
             under == seconds_to_subtract_from_ttl > original_ttl
             rest  == adjust_records(Tail(records), seconds_to_subtract_from_ttl,
                                     ok /\ ~under)
         IN  [records |-> <<IF under THEN original_ttl
                            ELSE original_ttl - seconds_to_subtract_from_ttl>>
                          \o rest.records,
              ok |-> rest.ok]

(* PassesExpiryCheck with the comparison off by one: an entry is still     *)
(* served at the instant its min_ttl has elapsed.                          *)
PassesExpiryCheck_OffByOne(object, now) ==
    now - object.cache_time <= object.cache_duration

(* get_message_for_cache_hit, lines 245-247: the copy got from the cache   *)
(* goes on to the TTL adjustment.                                          *)
PassesExpiryCheck(object, now) == ~expired(object, now)

(* adjust_cache_hit without line 292, response_message.set_id(request_id). *)
adjust_cache_hit_NoSetId(object, seconds, request_id) ==
    LET m == object.message
        a == adjust_records(m.answers, seconds, TRUE)
        n == adjust_records(m.name_servers, seconds, a.ok)
        x == adjust_records(m.additionals, seconds, n.ok)
    IN  IF ~x.ok THEN None
        ELSE Some([m EXCEPT !.answers = a.records, !.name_servers = n.records,
                            !.additionals = x.records])

(* get_message_for_cache_hit, lines 249-295, on the handler's copy of the  *)
(* cache object, seconds being duration_in_cache().as_secs().              *)
adjust_cache_hit(object, seconds, request_id) ==
    LET m == object.message
        a == adjust_records(m.answers, seconds, TRUE)
        n == adjust_records(m.name_servers, seconds, a.ok)
        x == adjust_records(m.additionals, seconds, n.ok)
    IN  IF ~x.ok THEN None
        ELSE Some([m EXCEPT !.answers = a.records, !.name_servers = n.records,
                            !.additionals = x.records, !.id = request_id])

(* The record sections an upstream response can carry: TTLs from ttls, at  *)
(* most one record a section and total records in all.                     *)
UpstreamSections(ttls, total) ==
    {t \in SeqsUpTo(ttls, 1) \X SeqsUpTo(ttls, 1) \X SeqsUpTo(ttls, 1) :
        Len(t[1]) + Len(t[2]) + Len(t[3]) <= total}

(* What the upstream can answer to a request: a response to its queries    *)
(* under the id it was sent with.                                          *)
UpstreamResponses(doh_request, sections) ==
    {[id |-> doh_request.id, message_type |-> "Response", response_code |-> rc,
      authoritative |-> FALSE, queries |-> doh_request.queries,
      answers |-> t[1], name_servers |-> t[2], additionals |-> t[3]] :
        rc \in ResponseCodes, t \in sections}

(* The ways make_doh_request returns None: encoding the request (107-111), *)
(* the transport (115-119), the HTTP status (123-127), decoding (133-137). *)
DohFailures == {"encode_error", "transport_error", "http_error", "decode_error"}

DohResults(doh_request, sections) ==
    {[ok |-> FALSE, failure |-> f, message |-> None] : f \in DohFailures}
    \cup {[ok |-> TRUE, failure |-> "none", message |-> Some(m)] :
            m \in UpstreamResponses(doh_request, sections)}

(* encode_dns_message of the response and, when it fails, of the SERVFAIL  *)
(* built from the request (lines 360-366, 94-102).                         *)
EncodeResults == {"ok", "error_then_ok", "error_then_error"}

(* encode_reply without the fallback of line 363: a response that does    *)
(* not encode is dropped.                                                  *)
encode_reply_NoFallback(request_message, response_message, enc) ==
    CASE enc = "ok" -> Some(Wire(response_message))
      [] OTHER -> None

encode_reply(request_message, response_message, enc) ==
    CASE enc = "ok" -> Some(Wire(response_message))
      [] enc = "error_then_ok" ->
            Some(Wire(build_failure_response_message(request_message)))
      [] OTHER -> None

-----------------------------------------------------------------------------
(* The state machine.                                                      *)

(* The state after DOHProxy::new under one of the configurations configs.  *)
InitWith(configs) ==
    /\ configuration \in configs
    /\ clock = 0
    /\ local_domain_cache = LocalDomainCache_new
    /\ cache = <<>>
    /\ cache_hits = 0
    /\ cache_misses = 0
    /\ upstream_errors = 0
    /\ requests = 0
    /\ pc = [h \in Handlers |-> "idle"]
    /\ request = [h \in Handlers |-> None]
    /\ cache_object = [h \in Handlers |-> None]
    /\ doh_response = [h \in Handlers |-> None]
    /\ completed = None

(* The decoded request of handler h.                                       *)
RequestMessageOf(h) == Unwrap(Unwrap(request[h]).message)

CacheKeyOf(h) == get_cache_key(RequestMessageOf(h))

(* process_request_packet_buffer returns to the listener (lines 353 and    *)
(* 360-366) and the task ends: response is the Option<Message> of          *)
(* process_request_message, outc the path it took, object the              *)
(* Option<CacheObject> the handler held, upstream the Option<Message> the  *)
(* upstream answered, enc how the encodes of lines 360 and 95 went ("none" *)
(* when none was tried), rep the Option<buffer> returned.                  *)
Return(h, buffer, response, outc, object, upstream, enc, rep) ==
    /\ completed' = Some([handler |-> h, request |-> buffer, response |-> response,
                          outcome |-> outc, object |-> object,
                          upstream |-> upstream, encode |-> enc, reply |-> rep,
                          now |-> clock])
    /\ pc' = [pc EXCEPT ![h] = "idle"]
    /\ request' = [request EXCEPT ![h] = None]
    /\ cache_object' = [cache_object EXCEPT ![h] = None]
    /\ doh_response' = [doh_response EXCEPT ![h] = None]

Finish(h, buffer, response_message, outc, object, upstream, enc) ==
    Return(h, buffer, Some(response_message), outc, object, upstream, enc,
           encode_reply(Unwrap(buffer.message), response_message, enc))

(* process_request_message, lines 326-328: count the miss and start the    *)
(* upstream transaction.                                                   *)
Miss(h) ==
    /\ cache_misses' = cache_misses + 1
    /\ pc' = [pc EXCEPT ![h] = "doh"]
    /\ cache_object' = [cache_object EXCEPT ![h] = None]
    /\ completed' = None
    /\ UNCHANGED <<request, doh_response>>

(* A listener hands a request buffer to process_request_packet_buffer: the *)
(* decode (350-356), the zero-query check (303-306) and the local-domain   *)
(* lookup (308-316).                                                       *)
process_request_packet_buffer(h, buffer, enc) ==
    /\ pc[h] = "idle"
    /\ requests' = requests + 1
    /\ UNCHANGED <<configuration, upstream_errors, clock, cache, cache_hits, cache_misses>>
    /\ IF buffer.wire # "dns"
       THEN /\ Return(h, buffer, None, "undecodable", None, None, "none", None)
            /\ UNCHANGED local_domain_cache
       ELSE LET request_message == Unwrap(buffer.message)
            IN  IF request_message.queries = <<>>
                THEN /\ Finish(h, buffer,
                               build_failure_response_message(request_message),
                               "zero_query", None, None, enc)
                     /\ UNCHANGED local_domain_cache
                ELSE LET cache_key == get_cache_key(request_message)
                         local == get_message_for_local_domain(
                                      local_domain_cache, cache_key, request_message.id)
                     IN  /\ local_domain_cache' =
                                TableAfterLookup(local_domain_cache, cache_key,
                                                 request_message.id)
                         /\ IF IsSome(local)
                            THEN Finish(h, buffer, Unwrap(local), "local", None,
                                        None, enc)
                            ELSE /\ pc' = [pc EXCEPT ![h] = "cache_get"]
                                 /\ request' = [request EXCEPT ![h] = Some(buffer)]
                                 /\ completed' = None
                                 /\ UNCHANGED <<cache_object, doh_response>>

(* get_message_for_cache_hit, lines 240-243: self.cache.get(key).await.    *)
cache_get(h) ==
    /\ pc[h] = "cache_get"
    /\ LET got == Cache_get(cache, CacheKeyOf(h))
       IN  IF IsSome(got)
           THEN /\ cache_object' = [cache_object EXCEPT ![h] = got]
                /\ pc' = [pc EXCEPT ![h] = "expired"]
                /\ completed' = None
                /\ UNCHANGED <<cache_misses, request, doh_response>>
           ELSE Miss(h)
    /\ UNCHANGED <<configuration, upstream_errors, clock, local_domain_cache, cache, cache_hits,
                   requests>>

(* get_message_for_cache_hit, lines 245-247: expired(Instant::now()).      *)
check_expired(h) ==
    /\ pc[h] = "expired"
    /\ IF PassesExpiryCheck(Unwrap(cache_object[h]), clock)
       THEN /\ pc' = [pc EXCEPT ![h] = "adjust"]
            /\ completed' = None
            /\ UNCHANGED <<cache_misses, cache_object, request, doh_response>>
       ELSE Miss(h)
    /\ UNCHANGED <<configuration, upstream_errors, clock, local_domain_cache, cache, cache_hits,
                   requests>>

(* get_message_for_cache_hit counting the hit before the TTL adjustment,   *)
(* so that a demoted hit counts as a hit and as a miss.                    *)
get_message_for_cache_hit_CountsBeforeAdjust(h, enc) ==
    /\ pc[h] = "adjust"
    /\ LET object == Unwrap(cache_object[h])
           seconds == duration_in_cache(object, clock)
           hit == adjust_cache_hit(object, seconds, RequestMessageOf(h).id)
       IN  /\ cache_hits' = cache_hits + 1
           /\ IF IsSome(hit)
              THEN /\ Finish(h, Unwrap(request[h]), Unwrap(hit), "cache_hit",
                             cache_object[h], None, enc)
                   /\ UNCHANGED cache_misses
              ELSE Miss(h)
    /\ UNCHANGED <<configuration, upstream_errors, clock, local_domain_cache, cache, requests>>

(* get_message_for_cache_hit when the handler works on the entry the cache *)
(* holds instead of a copy: the adjusted TTLs and the id of the request    *)
(* are written into the stored message.                                    *)
get_message_for_cache_hit_RewritesStored(h, enc) ==
    /\ pc[h] = "adjust"
    /\ LET object == Unwrap(cache_object[h])
           seconds == duration_in_cache(object, clock)
           hit == adjust_cache_hit(object, seconds, RequestMessageOf(h).id)
       IN  IF IsSome(hit)
           THEN /\ cache_hits' = cache_hits + 1
                /\ Finish(h, Unwrap(request[h]), Unwrap(hit), "cache_hit",
                          cache_object[h], None, enc)
                /\ cache' = [i \in 1..Len(cache) |->
                               IF cache[i].key = CacheKeyOf(h)
                               THEN [cache[i] EXCEPT !.object.message = Unwrap(hit)]
                               ELSE cache[i]]
                /\ UNCHANGED cache_misses
           ELSE /\ Miss(h)
                /\ UNCHANGED <<cache_hits, cache>>
    /\ UNCHANGED <<configuration, upstream_errors, clock, local_domain_cache, requests>>

(* get_message_for_cache_hit, lines 249-295, and the hit count (322-323).  *)
get_message_for_cache_hit(h, enc) ==
    /\ pc[h] = "adjust"
    /\ LET object == Unwrap(cache_object[h])
           seconds == duration_in_cache(object, clock)
           hit == adjust_cache_hit(object, seconds, RequestMessageOf(h).id)
       IN  IF IsSome(hit)
           THEN /\ cache_hits' = cache_hits + 1
                /\ Finish(h, Unwrap(request[h]), Unwrap(hit), "cache_hit",
                          cache_object[h], None, enc)
                /\ UNCHANGED cache_misses
           ELSE /\ Miss(h)
                /\ UNCHANGED cache_hits
    /\ UNCHANGED <<configuration, upstream_errors, clock, local_domain_cache, cache, requests>>

(* make_doh_request returns (104-142); on None the SERVFAIL (328-331), on  *)
(* Some clamp_ttl_and_cache_response up to the put (191-208).              *)
make_doh_request(h, result, enc) ==
    /\ pc[h] = "doh"
    /\ LET request_message == RequestMessageOf(h)
       IN  IF ~result.ok
           THEN Finish(h, Unwrap(request[h]),
                       build_failure_response_message(request_message),
                       "upstream_failed", None, None, enc)
           ELSE LET c == clamp_ttl_and_cache_response(
                             CacheKeyOf(h), Unwrap(result.message), clock,
                             configuration)
                IN  IF IsSome(c.put)
                    THEN /\ pc' = [pc EXCEPT ![h] = "put"]
                         /\ cache_object' = [cache_object EXCEPT ![h] = c.put]
                         /\ doh_response' = [doh_response EXCEPT ![h] = result.message]
                         /\ completed' = None
                         /\ UNCHANGED request
                    ELSE Finish(h, Unwrap(request[h]),
                                [c.message EXCEPT !.id = request_message.id],
                                "not_cached", None, result.message, enc)
    /\ UNCHANGED <<configuration, upstream_errors, clock, local_domain_cache, cache, cache_hits,
                   cache_misses, requests>>

(* CacheAfterPut when a put of a key the cache holds overwrites the entry   *)
(* where it is instead of moving it to the tail.                           *)
CacheAfterPut_ReplaceInPlace(entries, cache_key, object, max_size) ==
    IF \E i \in 1..Len(entries) : entries[i].key = cache_key
    THEN [i \in 1..Len(entries) |->
            IF entries[i].key = cache_key
            THEN [key |-> cache_key, object |-> object]
            ELSE entries[i]]
    ELSE Cache_put(entries, cache_key, object, max_size)

(* CacheAfterPut when a put of a key the cache holds keeps the entry that  *)
(* is there and drops the new one.                                         *)
CacheAfterPut_KeepFirst(entries, cache_key, object, max_size) ==
    IF \E i \in 1..Len(entries) : entries[i].key = cache_key
    THEN entries
    ELSE Cache_put(entries, cache_key, object, max_size)

(* CacheAfterPut inserting the entry without the eviction of put.          *)
CacheAfterPut_NoEviction(entries, cache_key, object, max_size) ==
    Append(Without(entries, cache_key), [key |-> cache_key, object |-> object])

(* The cache after the put of clamp_ttl_and_cache_response (210-215).      *)
CacheAfterPut(entries, cache_key, object, max_size) ==
    Cache_put(entries, cache_key, object, max_size)

(* clamp_ttl_and_cache_response, lines 210-217: self.cache.put(..).await,  *)
(* then the id of the request is set on the response (336-338).            *)
cache_put(h, enc) ==
    /\ pc[h] = "put"
    /\ LET object == Unwrap(cache_object[h])
           request_message == RequestMessageOf(h)
       IN  /\ cache' = CacheAfterPut(cache, CacheKeyOf(h), object,
                                     configuration.max_size)
           /\ Finish(h, Unwrap(request[h]),
                     [object.message EXCEPT !.id = request_message.id],
                     "cached", cache_object[h], doh_response[h], enc)
    /\ UNCHANGED <<configuration, upstream_errors, clock, local_domain_cache, cache_hits,
                   cache_misses, requests>>

(* run_periodic_timer, lines 374-382: one pop of the timer.                *)
run_periodic_timer ==
    /\ cache' = Cache_periodic_purge(cache, clock,
                                     configuration.max_purges_per_timer_pop).entries
    /\ completed' = None
    /\ UNCHANGED <<configuration, upstream_errors, clock, local_domain_cache, cache_hits,
                   cache_misses, requests, pc, request, cache_object, doh_response>>

(* A second passes.                                                        *)
Tick ==
    /\ clock < MaxTime
    /\ clock' = clock + 1
    /\ completed' = None
    /\ UNCHANGED <<configuration, upstream_errors, local_domain_cache, cache, cache_hits,
                   cache_misses, requests, pc, request, cache_object, doh_response>>

(* The steps of the system with handlers hs, request buffers buffers[h]    *)
(* for handler h, upstream record sections sections, encode results encs   *)
(* and limit requests.                                                     *)
StepOn(hs, buffers, sections, encs, limit) ==
    \/ \E h \in hs, enc \in encs :
            /\ requests < limit
            /\ \E buffer \in buffers[h] :
                    process_request_packet_buffer(h, buffer, enc)
    \/ \E h \in hs : cache_get(h)
    \/ \E h \in hs : check_expired(h)
    \/ \E h \in hs, enc \in encs : get_message_for_cache_hit(h, enc)
    \/ \E h \in hs, enc \in encs :
            /\ pc[h] = "doh"
            /\ \E result \in DohResults(doh_request_message(RequestMessageOf(h)),
                                        sections) :
                    make_doh_request(h, result, enc)
    \/ \E h \in hs, enc \in encs : cache_put(h, enc)
    \/ run_periodic_timer
    \/ Tick

(* The steps of the system on queries of type A and class IN for names.    *)
Step(hs, names, sections, encs, limit) ==
    StepOn(hs, [h \in hs |-> RequestBuffersOf(h, names)], sections, encs, limit)

-----------------------------------------------------------------------------
(* Spec: the resolver with both handlers running concurrently, the purger  *)
(* and the clock, on queries for a local name, two cacheable names and a   *)
(* name that makes no valid key.                                           *)

Configurations == {Configuration(1, 1, 1, 2)}

Names == {LocalName, <<"e">>, <<"b">>, <<"!">>}

UpstreamTtls == {0, 5}

Sections == UpstreamSections(UpstreamTtls, MaxRecordsConcurrent)

Init == InitWith(Configurations)

Next == Step(Handlers, Names, Sections, {"ok"}, MaxRequests)

Spec == Init /\ [][Next]_vars

-----------------------------------------------------------------------------
(* SpecSeq: one handler serving requests one after the other, on upstream  *)
(* responses with up to MaxRecords records and TTLs below, inside and      *)
(* above the clamp range, under a configuration with clamp_min_ttl = 0     *)
(* and one with clamp_min_ttl > 0.                                         *)

SeqConfigurations == {Configuration(1, 1, 1, 3), Configuration(1, 1, 0, 2)}

SeqNames == {LocalName, <<"e">>, <<"!">>}

SeqUpstreamTtls == {0, 2, 5}

SeqSections == UpstreamSections(SeqUpstreamTtls, MaxRecords)

InitSeq == InitWith(SeqConfigurations)

NextSeq == Step({"h1"}, SeqNames, SeqSections, {"ok"}, MaxRequests)

SpecSeq == InitSeq /\ [][NextSeq]_vars

-----------------------------------------------------------------------------
(* SpecOrder: one handler serving up to MaxRequestsOrder requests for      *)
(* three cacheable names, one after the other, with a cache of two         *)
(* entries.                                                                *)

OrderConfigurations == {Configuration(2, 1, 1, 2)}

OrderNames == {<<"a">>, <<"b">>, <<"c">>}

OrderUpstreamTtls == {5}

OrderSections == UpstreamSections(OrderUpstreamTtls, MaxRecordsConcurrent)

InitOrder == InitWith(OrderConfigurations)

NextOrder == Step({"h1"}, OrderNames, OrderSections, {"ok"}, MaxRequestsOrder)

SpecOrder == InitOrder /\ [][NextOrder]_vars

-----------------------------------------------------------------------------
(* SpecPurge: one handler filling a cache of two entries with responses    *)
(* of different TTLs, and a purger that removes at most one or at most     *)
(* two entries a pop.                                                      *)

PurgeConfigurations == {Configuration(2, 1, 1, 2), Configuration(2, 2, 1, 2)}

PurgeNames == {<<"a">>, <<"b">>}

PurgeUpstreamTtls == {0, 5}

PurgeSections == UpstreamSections(PurgeUpstreamTtls, MaxRecordsConcurrent)

InitPurge == InitWith(PurgeConfigurations)

NextPurge == Step({"h1"}, PurgeNames, PurgeSections, {"ok"}, MaxRequests)

SpecPurge == InitPurge /\ [][NextPurge]_vars

-----------------------------------------------------------------------------
(* SpecPurgeFair: SpecPurge with a purger that removes no entry or at most *)
(* one entry a pop, and with the purger's loop scheduled fairly: the task  *)
(* spawned at line 389 sleeps and purges for ever (374-382), so a pop that *)
(* stays possible is eventually made.                                      *)

PurgeFairConfigurations == {Configuration(2, 0, 1, 2), Configuration(2, 1, 1, 2)}

InitPurgeFair == InitWith(PurgeFairConfigurations)

SpecPurgeFair ==
    InitPurgeFair /\ [][NextPurge]_vars /\ WF_vars(run_periodic_timer)

-----------------------------------------------------------------------------
(* SpecKey: one handler serving two requests whose first query varies in   *)
(* the case of its owner name, its type and its class, followed or not by  *)
(* a second query.                                                         *)

QueryOf(name, query_type, query_class) ==
    [name |-> name, query_type |-> query_type, query_class |-> query_class]

KeyFirstQueries ==
    {QueryOf(<<"e">>, "A", "IN"), QueryOf(<<"E">>, "A", "IN"),
     QueryOf(<<"e">>, "AAAA", "IN"), QueryOf(<<"e">>, "A", "CH"),
     QueryOf(<<"b">>, "A", "IN"),
     QueryOf(<<"L">>, "A", "IN"), QueryOf(<<"l">>, "AAAA", "IN")}

KeyOtherQueries == {<<>>, <<QueryOf(<<"b">>, "A", "IN")>>}

KeyRequestBuffers ==
    [h \in {"h1"} |->
        {Garbage, Wire(RequestMessage(RequestIdOf[h], <<>>))}
        \cup {Wire(RequestMessage(RequestIdOf[h], <<q>> \o others)) :
                q \in KeyFirstQueries, others \in KeyOtherQueries}]

KeyConfigurations == {Configuration(2, 1, 1, 2)}

KeyUpstreamTtls == {5}

KeySections == UpstreamSections(KeyUpstreamTtls, MaxRecordsConcurrent)

InitKey == InitWith(KeyConfigurations)

NextKey == StepOn({"h1"}, KeyRequestBuffers, KeySections, {"ok"}, MaxRequests)

SpecKey == InitKey /\ [][NextKey]_vars

-----------------------------------------------------------------------------
(* SpecHits: one handler serving up to MaxRequestsOrder requests for one   *)
(* name, so that an entry of up to MaxRecords records is hit more than     *)
(* once while it ages.                                                     *)

HitsConfigurations == {Configuration(1, 1, 1, 3)}

HitsNames == {<<"a">>}

HitsUpstreamTtls == {2, 5}

HitsSections == UpstreamSections(HitsUpstreamTtls, MaxRecords)

(* clamp_max_ttl_seconds of HitsConfigurations: no TTL served is above it. *)
MaxHitTtl == (CHOOSE c \in HitsConfigurations : TRUE).clamp_max_ttl_seconds

InitHits == InitWith(HitsConfigurations)

NextHits == Step({"h1"}, HitsNames, HitsSections, {"ok"}, MaxRequestsOrder)

SpecHits == InitHits /\ [][NextHits]_vars

-----------------------------------------------------------------------------
(* SpecEncode: both handlers on request buffers that decode or not, with   *)
(* every outcome of encoding the response and the fallback SERVFAIL.       *)

EncodeConfigurations == {Configuration(1, 1, 1, 2)}

EncodeNames == {LocalName, <<"e">>}

EncodeUpstreamTtls == {5}

EncodeSections == UpstreamSections(EncodeUpstreamTtls, MaxRecordsConcurrent)

InitEncode == InitWith(EncodeConfigurations)

NextEncode ==
    Step(Handlers, EncodeNames, EncodeSections, EncodeResults, MaxRequests)

SpecEncode == InitEncode /\ [][NextEncode]_vars

-----------------------------------------------------------------------------
(* SpecClamp: one handler on upstream responses of up to MaxRecords        *)
(* records with TTLs below, inside and above the clamp range, under clamp  *)
(* bounds with lo = 0, lo < hi, lo = hi and lo > hi.                       *)

ClampConfigurations ==
    {Configuration(1, 1, 0, 2), Configuration(1, 1, 1, 3),
     Configuration(1, 1, 2, 2), Configuration(1, 1, 3, 2)}

ClampNames == {<<"e">>}

ClampUpstreamTtls == {0, 2, 5}

ClampSections == UpstreamSections(ClampUpstreamTtls, MaxRecords)

InitClamp == InitWith(ClampConfigurations)

NextClamp == Step({"h1"}, ClampNames, ClampSections, {"ok"}, MaxRequests)

SpecClamp == InitClamp /\ [][NextClamp]_vars

-----------------------------------------------------------------------------
(* SpecShared: both handlers asking for the same name under their own      *)
(* transaction ids, up to MaxRequestsOrder requests, so that two lookups   *)
(* can hold the entry a third request cached, with the purger and further  *)
(* puts in between.                                                        *)

SharedConfigurations == {Configuration(1, 1, 1, 3)}

SharedName == <<"e">>

SharedRequestBuffers ==
    [h \in Handlers |-> {Wire(RequestMessage(RequestIdOf[h], <<Query(SharedName)>>))}]

SharedUpstreamTtls == {2, 5}

SharedSections == UpstreamSections(SharedUpstreamTtls, MaxRecordsConcurrent)

InitShared == InitWith(SharedConfigurations)

NextShared ==
    StepOn(Handlers, SharedRequestBuffers, SharedSections, {"ok"}, MaxRequestsOrder)

SpecShared == InitShared /\ [][NextShared]_vars

-----------------------------------------------------------------------------
(* Properties.                                                             *)

(* The request message of a completed request whose buffer decoded.        *)
Decodable(c) == c.request.wire = "dns"

RequestOf(c) == Unwrap(c.request.message)

InCache(entries, key) == \E i \in 1..Len(entries) : entries[i].key = key

C2_SizeAtMostMaxSize == Len(cache) <= configuration.max_size

(* A handler is about to put a new key into a cache that is full.          *)
C2_Witness ==
    \E h \in Handlers :
        /\ pc[h] = "put"
        /\ Len(cache) = configuration.max_size
        /\ ~InCache(cache, CacheKeyOf(h))

(* C3: every reply to a decodable request carries the transaction id of    *)
(* the request, whatever path produced it: local table, cache hit,         *)
(* upstream response, SERVFAIL.                                            *)
C3_ReplyCarriesRequestId ==
    IsSome(completed) =>
        LET c == Unwrap(completed)
        IN  Decodable(c) =>
              /\ c.outcome \in {"zero_query", "local", "cache_hit", "upstream_failed",
                                "not_cached", "cached"}
              /\ IsSome(c.response)
              /\ Unwrap(c.response).id = RequestOf(c).id
              /\ IsSome(c.reply) =>
                    /\ Unwrap(c.reply).wire = "dns"
                    /\ Unwrap(Unwrap(c.reply).message).id = RequestOf(c).id

(* A cache hit was replied to, the stored message carrying another id.     *)
C3_Witness ==
    /\ IsSome(completed)
    /\ Unwrap(completed).outcome = "cache_hit"
    /\ IsSome(Unwrap(completed).reply)
    /\ Unwrap(Unwrap(completed).object).message.id # RequestOf(Unwrap(completed)).id

(* The TTLs of the records of the three non-query sections of a message,   *)
(* in the order answers, name servers, additionals.                        *)
RecordTtls(m) == m.answers \o m.name_servers \o m.additionals

(* min(hi, max(lo, ttl)) under the configuration.                          *)
ClampOf(ttl) ==
    LET lo == configuration.clamp_min_ttl_seconds
        hi == configuration.clamp_max_ttl_seconds
        raised == IF ttl < lo THEN lo ELSE ttl
    IN  IF raised > hi THEN hi ELSE raised

(* Section by section, the records of r are those of u with clamped TTLs.  *)
RecordsClamped(r, u) ==
    /\ Len(r.answers) = Len(u.answers)
    /\ Len(r.name_servers) = Len(u.name_servers)
    /\ Len(r.additionals) = Len(u.additionals)
    /\ \A i \in 1..Len(u.answers) : r.answers[i] = ClampOf(u.answers[i])
    /\ \A i \in 1..Len(u.name_servers) : r.name_servers[i] = ClampOf(u.name_servers[i])
    /\ \A i \in 1..Len(u.additionals) : r.additionals[i] = ClampOf(u.additionals[i])

RecordsUnchanged(r, u) ==
    /\ r.answers = u.answers
    /\ r.name_servers = u.name_servers
    /\ r.additionals = u.additionals

(* C4 as claimed: for every decoded upstream response, whatever its        *)
(* response code, every record of the message returned to the client has   *)
(* TTL = min(hi, max(lo, upstream TTL)).                                   *)
C4_ClampedWhateverResponseCode ==
    (IsSome(completed) /\ IsSome(Unwrap(completed).upstream)) =>
        RecordsClamped(Unwrap(Unwrap(completed).response),
                       Unwrap(Unwrap(completed).upstream))

(* C4 as amended: for every decoded upstream response whose response code  *)
(* is NoError or NXDomain, every record of the message returned to the     *)
(* client has TTL = min(hi, max(lo, upstream TTL)); with any other         *)
(* response code the records are returned with the upstream's TTLs.        *)
C4_ClampedWhenNoErrorOrNXDomain ==
    (IsSome(completed) /\ IsSome(Unwrap(completed).upstream)) =>
        LET r == Unwrap(Unwrap(completed).response)
            u == Unwrap(Unwrap(completed).upstream)
        IN  IF u.response_code \in {"NoError", "NXDomain"}
            THEN RecordsClamped(r, u)
            ELSE RecordsUnchanged(r, u)

(* A NoError response with a TTL below the range and one above it came     *)
(* back from the upstream and was returned.                                *)
C4_Witness ==
    /\ IsSome(completed)
    /\ IsSome(Unwrap(completed).upstream)
    /\ LET u == Unwrap(Unwrap(completed).upstream)
       IN  /\ u.response_code = "NoError"
           /\ \E i \in 1..Len(RecordTtls(u)) :
                  RecordTtls(u)[i] < configuration.clamp_min_ttl_seconds
           /\ \E i \in 1..Len(RecordTtls(u)) :
                  RecordTtls(u)[i] > configuration.clamp_max_ttl_seconds

(* The cacheability gate on a completed upstream transaction: response     *)
(* code NoError or NXDomain, every clamped TTL and the entry's min_ttl     *)
(* above 0, and a valid request key.                                       *)
PassesGate(c) ==
    LET u == Unwrap(c.upstream)
    IN  /\ u.response_code \in {"NoError", "NXDomain"}
        /\ \A i \in 1..Len(RecordTtls(u)) : ClampOf(RecordTtls(u)[i]) > 0
        /\ IsSome(c.object) /\ Unwrap(c.object).cache_duration > 0
        /\ ValidName(RequestOf(c).queries[1].name)

(* C5: a step of a request changes the cache only by inserting the         *)
(* upstream response of that request, and a response is inserted only if   *)
(* its rcode is NoError or NXDomain, its minimum clamped TTL is > 0 and    *)
(* the request key is valid; every other step of a request leaves the      *)
(* cache as it is.                                                         *)
C5_CachedOnlyThroughGate ==
    [][(pc' # pc \/ requests' # requests) =>
          /\ (cache' # cache) =>
                (IsSome(completed') /\ Unwrap(completed').outcome = "cached")
          /\ (IsSome(completed') /\ Unwrap(completed').outcome = "cached") =>
                /\ IsSome(Unwrap(completed').upstream)
                /\ PassesGate(Unwrap(completed'))
                /\ Cache_get(cache', get_cache_key(RequestOf(Unwrap(completed'))))
                      = Unwrap(completed').object
          /\ (IsSome(completed') /\ Unwrap(completed').outcome # "cached") =>
                cache' = cache
      ]_vars

(* A NoError response to a request without a valid key was returned, and   *)
(* the cache still holds the entry it held.                                *)
C5_Witness ==
    /\ IsSome(completed)
    /\ Unwrap(completed).outcome = "not_cached"
    /\ Unwrap(Unwrap(completed).upstream).response_code = "NoError"
    /\ ~ValidName(RequestOf(Unwrap(completed)).queries[1].name)
    /\ Len(cache) = 1

(* C6 as claimed: an upstream response without records in its answer,      *)
(* authority and additional sections is not inserted into the cache.       *)
C6_NoRecordsNeverCached ==
    (IsSome(completed) /\ IsSome(Unwrap(completed).upstream)
        /\ RecordTtls(Unwrap(Unwrap(completed).upstream)) = <<>>)
    => Unwrap(completed).outcome # "cached"

(* C6 as amended: for an upstream response without records the clamp       *)
(* returns clamp_min_ttl_seconds as the minimum TTL, and the response is   *)
(* inserted, with min_ttl = clamp_min_ttl_seconds, exactly when            *)
(* clamp_min_ttl_seconds > 0, its rcode is NoError or NXDomain and the     *)
(* request key is valid.                                                   *)
C6_NoRecordsMinIsClampMin ==
    (IsSome(completed) /\ IsSome(Unwrap(completed).upstream)
        /\ RecordTtls(Unwrap(Unwrap(completed).upstream)) = <<>>)
    => LET c == Unwrap(completed)
           u == Unwrap(c.upstream)
       IN  /\ clamp_and_get_min_ttl_seconds(u, configuration).min_ttl_seconds
                 = configuration.clamp_min_ttl_seconds
           /\ (c.outcome = "cached") <=>
                 /\ configuration.clamp_min_ttl_seconds > 0
                 /\ u.response_code \in {"NoError", "NXDomain"}
                 /\ ValidName(RequestOf(c).queries[1].name)
           /\ (c.outcome = "cached") =>
                 Unwrap(c.object).cache_duration = configuration.clamp_min_ttl_seconds

(* A response without records was inserted into the cache.                 *)
C6_Witness ==
    /\ IsSome(completed)
    /\ Unwrap(completed).outcome = "cached"
    /\ RecordTtls(Unwrap(Unwrap(completed).upstream)) = <<>>
    /\ InCache(cache, get_cache_key(RequestOf(Unwrap(completed))))

(* Section by section, the records of r are those of m, each with elapsed  *)
(* seconds less to live.                                                   *)
RecordsDecremented(r, m, elapsed) ==
    /\ Len(r.answers) = Len(m.answers)
    /\ Len(r.name_servers) = Len(m.name_servers)
    /\ Len(r.additionals) = Len(m.additionals)
    /\ \A i \in 1..Len(m.answers) : r.answers[i] = m.answers[i] - elapsed
    /\ \A i \in 1..Len(m.name_servers) :
           r.name_servers[i] = m.name_servers[i] - elapsed
    /\ \A i \in 1..Len(m.additionals) :
           r.additionals[i] = m.additionals[i] - elapsed

(* Handler h takes a step of the cache lookup.                             *)
LookupStep(h) ==
    /\ pc[h] \in {"cache_get", "expired", "adjust"}
    /\ pc'[h] # pc[h]

(* C7: on a cache hit the message returned has, in the three non-query     *)
(* sections, TTL = stored TTL - elapsed for every record, elapsed being    *)
(* the whole seconds since the entry's inserted_at, and no step of the     *)
(* lookup changes the cache: the stored entry keeps its TTLs, inserted_at  *)
(* and min_ttl.                                                            *)
C7_DecrementedViewOfUnchangedEntry ==
    [][/\ (IsSome(completed') /\ Unwrap(completed').outcome = "cache_hit") =>
             LET c == Unwrap(completed')
                 o == Unwrap(c.object)
             IN  /\ Cache_get(cache, get_cache_key(RequestOf(c))) = Some(o)
                    => Cache_get(cache', get_cache_key(RequestOf(c))) = Some(o)
                 /\ RecordsDecremented(Unwrap(c.response), o.message,
                                       clock - o.cache_time)
                 /\ Unwrap(c.response).queries = o.message.queries
                 /\ Unwrap(c.response).response_code = o.message.response_code
       /\ (\E h \in Handlers : LookupStep(h)) => cache' = cache
      ]_vars

(* A hit on an entry that has been in the cache for at least a second and  *)
(* holds two records with different TTLs.                                  *)
C7_Witness ==
    /\ IsSome(completed)
    /\ Unwrap(completed).outcome = "cache_hit"
    /\ LET c == Unwrap(completed)
           o == Unwrap(c.object)
       IN  /\ c.now - o.cache_time >= 1
           /\ Len(RecordTtls(o.message)) = 2
           /\ RecordTtls(o.message)[1] # RecordTtls(o.message)[2]
           /\ Cache_get(cache, get_cache_key(RequestOf(c))) = Some(o)

(* The response is the request made a SERVFAIL response: same id, queries  *)
(* and (empty) record sections.                                            *)
IsServFailOf(r, req) ==
    /\ r.id = req.id
    /\ r.message_type = "Response"
    /\ r.response_code = "ServFail"
    /\ r.queries = req.queries
    /\ r.answers = req.answers
    /\ r.name_servers = req.name_servers
    /\ r.additionals = req.additionals

(* C8: when the upstream transaction fails the reply is the SERVFAIL       *)
(* response built from the request (same id, no answers added), and no     *)
(* step of a request other than the put of a cacheable response changes    *)
(* the cache, so the failed request leaves the cache as it was.            *)
C8_UpstreamFailureServFail ==
    [][/\ (IsSome(completed') /\ Unwrap(completed').outcome = "upstream_failed") =>
             LET c == Unwrap(completed')
             IN  /\ pc[c.handler] = "doh"
                 /\ IsServFailOf(Unwrap(c.response), RequestOf(c))
                 /\ Unwrap(c.response).answers = <<>>
                 /\ c.reply = Some(Wire(Unwrap(c.response)))
                 /\ cache' = cache
       /\ (requests' # requests \/ \E h \in Handlers : pc[h] # "put" /\ pc'[h] # pc[h])
             => cache' = cache
      ]_vars

(* An upstream transaction failed while the cache held an entry.           *)
C8_Witness ==
    /\ IsSome(completed)
    /\ Unwrap(completed).outcome = "upstream_failed"
    /\ Len(cache) = 1

(* C9: a decodable request without queries is answered, in the step that   *)
(* receives it, with a copy of the request with message type response,     *)
(* rcode SERVFAIL and the same id; that step looks nothing up and leaves   *)
(* the local table, the cache, cache_hits and cache_misses as they are,    *)
(* and no handler goes on to a lookup or an upstream call with it.         *)
C9_ZeroQueriesServFail ==
    [][/\ (IsSome(completed') /\ Decodable(Unwrap(completed'))
             /\ RequestOf(Unwrap(completed')).queries = <<>>) =>
             LET c == Unwrap(completed')
             IN  /\ c.outcome = "zero_query"
                 /\ IsServFailOf(Unwrap(c.response), RequestOf(c))
                 /\ c.reply = Some(Wire(Unwrap(c.response)))
                 /\ c.object = None /\ c.upstream = None
                 /\ pc[c.handler] = "idle" /\ pc' = pc
                 /\ requests' = requests + 1
                 /\ cache_hits' = cache_hits /\ cache_misses' = cache_misses
                 /\ cache' = cache /\ local_domain_cache' = local_domain_cache
       /\ \A h \in Handlers :
             IsSome(request'[h]) =>
                 Unwrap(Unwrap(request'[h]).message).queries # <<>>
      ]_vars

(* A request without queries was answered after a miss had been counted    *)
(* and while the cache held an entry.                                      *)
C9_Witness ==
    /\ IsSome(completed)
    /\ Unwrap(completed).outcome = "zero_query"
    /\ cache_misses > 0
    /\ Len(cache) = 1

(* The key of the completed request is in the local-domain table.          *)
HasLocalKey(c) ==
    /\ Decodable(c)
    /\ RequestOf(c).queries # <<>>
    /\ get_cache_key(RequestOf(c)) \in DOMAIN local_domain_cache

(* C10: a query whose key is in the local-domain table is answered, in    *)
(* the step that receives it, with the stored template under the id of    *)
(* the request; that step leaves the cache, cache_hits and cache_misses   *)
(* as they are, no handler goes on to a cache lookup or an upstream call  *)
(* with such a key, and no step changes the table.                        *)
C10_LocalAnswerTableUnchanged ==
    [][/\ local_domain_cache' = local_domain_cache
       /\ local_domain_cache = LocalDomainCache_new
       /\ (IsSome(completed') /\ HasLocalKey(Unwrap(completed'))) =>
             LET c == Unwrap(completed')
                 stored == local_domain_cache[get_cache_key(RequestOf(c))]
                 r == Unwrap(c.response)
             IN  /\ c.outcome = "local"
                 /\ r.id = RequestOf(c).id
                 /\ r.message_type = stored.message_type
                 /\ r.response_code = stored.response_code
                 /\ r.authoritative = stored.authoritative
                 /\ r.queries = stored.queries
                 /\ r.answers = stored.answers
                 /\ r.name_servers = stored.name_servers
                 /\ r.additionals = stored.additionals
                 /\ c.reply = Some(Wire(r))
                 /\ pc[c.handler] = "idle" /\ pc' = pc
                 /\ requests' = requests + 1
                 /\ cache_hits' = cache_hits /\ cache_misses' = cache_misses
                 /\ cache' = cache
       /\ (IsSome(completed') /\ Unwrap(completed').outcome = "local") =>
             HasLocalKey(Unwrap(completed'))
       /\ \A h \in Handlers :
             IsSome(request'[h]) =>
                 get_cache_key(Unwrap(Unwrap(request'[h]).message))
                     \notin DOMAIN local_domain_cache
      ]_vars

(* A local answer under an id other than the stored one, given while the   *)
(* other handler waits for the upstream after a counted miss.              *)
C10_Witness ==
    /\ IsSome(completed)
    /\ Unwrap(completed).outcome = "local"
    /\ Unwrap(Unwrap(completed).response).id
          # local_domain_cache[get_cache_key(RequestOf(Unwrap(completed)))].id
    /\ \E h \in Handlers : pc[h] = "doh"
    /\ cache_misses > 0

(* The entries with the entry of key k at the tail, the others in the      *)
(* order they had, and as many entries dropped from the head as there are  *)
(* above limit.                                                            *)
TailPut(entries, k, o, limit) ==
    LET Other(e) == e.key # k
        appended == SelectSeq(entries, Other) \o <<[key |-> k, object |-> o]>>
    IN  IF Len(appended) > limit
        THEN SubSeq(appended, Len(appended) - limit + 1, Len(appended))
        ELSE appended

(* C11: the cache is ordered by each key's most recent put: a put leaves   *)
(* the key at the tail, whether the key is new or replaced, with the other *)
(* entries in the order they had; the entries a put removes over max_size  *)
(* are the ones at the head; and no step of a lookup changes the cache.    *)
C11_OrderedByMostRecentPut ==
    [][\A h \in Handlers :
        /\ (pc[h] = "put" /\ pc'[h] # "put") =>
              cache' = TailPut(cache, CacheKeyOf(h), Unwrap(cache_object[h]),
                               configuration.max_size)
        /\ LookupStep(h) => cache' = cache
      ]_vars

(* With max_size = 2 the third of three puts of different keys, none of    *)
(* them purged, has completed: the cache holds the last two.               *)
C11_Witness ==
    /\ IsSome(completed)
    /\ Unwrap(completed).outcome = "cached"
    /\ configuration.max_size = 2
    /\ requests = 3 /\ cache_misses = 3 /\ clock = 0
    /\ Len(cache) = 2
    /\ cache[2].key = get_cache_key(RequestOf(Unwrap(completed)))
    /\ cache[1].key # cache[2].key

(* The positions of the entries that are expired at now.                   *)
ExpiredAt(entries, now) ==
    {i \in 1..Len(entries) :
        now - entries[i].object.cache_time >= entries[i].object.cache_duration}

(* The first n positions of the set of positions E.                        *)
FirstOf(E, n) == {i \in E : Cardinality({j \in E : j < i}) < n}

(* The entries from position i on that are at no position of R.            *)
RECURSIVE KeepFrom(_, _, _)
KeepFrom(entries, R, i) ==
    IF i > Len(entries) THEN <<>>
    ELSE (IF i \in R THEN <<>> ELSE <<entries[i]>>) \o KeepFrom(entries, R, i + 1)

(* C12: a pop of the purger removes the first min(number of expired        *)
(* entries, max_purges_per_timer_pop) entries that are expired at its      *)
(* now, in insertion order, and nothing else; periodic_purge returns the   *)
(* number removed and the size before minus that number, which is the size *)
(* of the cache after the pop.                                             *)
C12_PurgeRemovesBoundedExpired ==
    [][(pc' = pc /\ requests' = requests /\ clock' = clock) =>
          LET E == ExpiredAt(cache, clock)
              n == IF Cardinality(E) < configuration.max_purges_per_timer_pop
                   THEN Cardinality(E)
                   ELSE configuration.max_purges_per_timer_pop
              r == Cache_periodic_purge(cache, clock,
                                        configuration.max_purges_per_timer_pop)
          IN  /\ cache' = KeepFrom(cache, FirstOf(E, n), 1)
              /\ r.entries = cache'
              /\ r.cache_items_purged = n
              /\ r.cache_len = Len(cache) - n
              /\ r.cache_len = Len(cache')
      ]_vars

(* The purger, bounded to one removal a pop, is about to pop on a cache    *)
(* whose older entry is not expired and whose newer entry is.              *)
C12_Witness ==
    /\ configuration.max_purges_per_timer_pop = 1
    /\ Len(cache) = 2
    /\ ExpiredAt(cache, clock) = {2}
    /\ \A h \in Handlers : pc[h] = "idle"

(* Handler h leaves the cache lookup for the upstream path.                *)
GoesUpstream(h) ==
    /\ pc[h] \in {"cache_get", "expired", "adjust"}
    /\ pc'[h] = "doh"

(* Handler h completes its request as a cache hit.                         *)
ServedFromCache(h) ==
    /\ IsSome(completed')
    /\ Unwrap(completed').handler = h
    /\ Unwrap(completed').outcome = "cache_hit"

(* C13: a request with a query that is not answered from the local table   *)
(* enters the cache lookup without a change of the counters and leaves it  *)
(* either served from the cache, with cache_hits + 1 and cache_misses      *)
(* unchanged, or for the upstream path (no entry, an expired entry, a TTL  *)
(* older than its record), with cache_misses + 1 and cache_hits unchanged; *)
(* no other step changes a counter, so each such request is counted once   *)
(* and the counters never decrease.                                        *)
C13_OneCounterOncePerRequest ==
    [][/\ \A h \in Handlers :
             /\ (pc[h] = "idle" /\ pc'[h] # "idle") => pc'[h] = "cache_get"
             /\ (pc[h] \in {"cache_get", "expired", "adjust"} /\ pc'[h] # pc[h]) =>
                   \/ pc[h] = "cache_get" /\ pc'[h] = "expired"
                   \/ pc[h] = "expired" /\ pc'[h] = "adjust"
                   \/ GoesUpstream(h)
                   \/ pc[h] = "adjust" /\ ServedFromCache(h) /\ pc'[h] = "idle"
             /\ (pc[h] \in {"doh", "put"} /\ pc'[h] # pc[h]) =>
                   /\ pc'[h] \in {"put", "idle"}
                   /\ ~ServedFromCache(h)
             /\ ServedFromCache(h) => pc[h] = "adjust"
       /\ (requests' # requests) =>
             IF IsSome(completed')
             THEN /\ Unwrap(completed').outcome \in {"undecodable", "zero_query", "local"}
                  /\ pc' = pc
             ELSE \E h \in Handlers : pc[h] = "idle" /\ pc'[h] = "cache_get"
       /\ cache_hits' =
             IF \E h \in Handlers : ServedFromCache(h)
             THEN cache_hits + 1 ELSE cache_hits
       /\ cache_misses' =
             IF \E h \in Handlers : GoesUpstream(h)
             THEN cache_misses + 1 ELSE cache_misses
       /\ ~((\E h \in Handlers : ServedFromCache(h))
              /\ (\E h \in Handlers : GoesUpstream(h)))
      ]_vars

(* A request was served from the cache after another one had missed, and   *)
(* each was counted once.                                                  *)
C13_Witness ==
    /\ IsSome(completed)
    /\ Unwrap(completed).outcome = "cache_hit"
    /\ requests = 2
    /\ cache_hits = 1
    /\ cache_misses = 1

(* C14 as claimed: a step in which an upstream transaction fails adds one  *)
(* to upstream_errors, and no other step changes upstream_errors.          *)
C14_UpstreamFailureCounted ==
    [][upstream_errors' =
          IF IsSome(completed') /\ Unwrap(completed').outcome = "upstream_failed"
          THEN upstream_errors + 1
          ELSE upstream_errors
      ]_vars

(* The positions of the entries of key k.                                  *)
PositionsOf(entries, k) == {i \in 1..Len(entries) : entries[i].key = k}

SameChar(a, b) ==
    \/ a = b
    \/ \E i \in 1..Len(UpperChars) : {a, b} = {UpperChars[i], LowerChars[i]}

(* Two queries have the same owner name compared case-insensitively, the   *)
(* same type and the same class.                                           *)
SameQuery(p, q) ==
    /\ Len(p.name) = Len(q.name)
    /\ \A i \in 1..Len(p.name) : SameChar(p.name[i], q.name[i])
    /\ p.query_type = q.query_type
    /\ p.query_class = q.query_class

(* The messages whose keys are compared: the requests of SpecKey and the   *)
(* templates of the local table.                                           *)
KeyedMessages ==
    {Unwrap(b.message) : b \in {x \in KeyRequestBuffers["h1"] :
                                    x.wire = "dns" /\ Unwrap(x.message).queries # <<>>}}
    \cup {local_domain_cache[k] : k \in DOMAIN local_domain_cache}

(* C16: the key of a request equals the key of another message iff their   *)
(* first queries have the same owner name compared case-insensitively, the *)
(* same type and the same class, whatever their other queries; so a        *)
(* request is answered from the local table iff a template has the same    *)
(* first query in that sense, and its cache lookup finds an entry iff the  *)
(* cache holds the response to a request with the same first query in      *)
(* that sense.                                                             *)
C16_KeyIsFirstQuery ==
    [][/\ (IsSome(completed') /\ Decodable(Unwrap(completed'))
              /\ RequestOf(Unwrap(completed')).queries # <<>>) =>
             ((Unwrap(completed').outcome = "local")
                <=> \E k \in DOMAIN local_domain_cache :
                       SameQuery(local_domain_cache[k].queries[1],
                                 RequestOf(Unwrap(completed')).queries[1]))
       /\ \A h \in Handlers :
             (pc[h] = "cache_get" /\ pc'[h] # "cache_get") =>
                /\ \A n \in KeyedMessages :
                      (get_cache_key(RequestMessageOf(h)) = get_cache_key(n))
                         <=> SameQuery(RequestMessageOf(h).queries[1], n.queries[1])
                /\ (pc'[h] = "expired")
                      <=> \E i \in 1..Len(cache) :
                             SameQuery(cache[i].object.message.queries[1],
                                       RequestMessageOf(h).queries[1])
                /\ (pc'[h] = "expired") =>
                      SameQuery(Unwrap(cache_object'[h]).message.queries[1],
                                RequestMessageOf(h).queries[1])
      ]_vars

(* A request was served from the cache with the response to a request that *)
(* wrote the owner name in another case and had another number of queries. *)
C16_Witness ==
    /\ IsSome(completed)
    /\ Unwrap(completed).outcome = "cache_hit"
    /\ LET req == RequestOf(Unwrap(completed))
           stored == Unwrap(Unwrap(completed).object).message
       IN  /\ req.queries[1].name # stored.queries[1].name
           /\ Len(req.queries) # Len(stored.queries)

(* The last step served a cache hit on the entry of name put at time c.    *)
HitOn(name, c) ==
    /\ IsSome(completed)
    /\ Unwrap(completed).outcome = "cache_hit"
    /\ get_cache_key(RequestOf(Unwrap(completed))).name = name
    /\ Unwrap(Unwrap(completed).object).cache_time = c

(* The TTL the hit returned for the record of index i, if it has one, is   *)
(* at most v.                                                              *)
HitTtlAtMost(i, v) ==
    i \in 1..Len(RecordTtls(Unwrap(Unwrap(completed).response)))
        => RecordTtls(Unwrap(Unwrap(completed).response))[i] <= v

(* The hit returned v for the record of index i.                           *)
HitTtlIs(i, v) ==
    /\ i \in 1..Len(RecordTtls(Unwrap(Unwrap(completed).response)))
    /\ RecordTtls(Unwrap(Unwrap(completed).response))[i] = v

(* C17: once a hit on an entry has returned TTL v for the record of index  *)
(* i, every later hit on that entry returns at most v for that index.      *)
C17_HitTtlsNeverIncrease ==
    \A name \in HitsNames, c \in 0..MaxTime, i \in 1..MaxRecords,
       v \in 0..MaxHitTtl :
        [](HitOn(name, c) /\ HitTtlIs(i, v)
              => [](HitOn(name, c) => HitTtlAtMost(i, v)))

(* The second hit on an entry of two records, later than the first.        *)
C17_Witness ==
    /\ IsSome(completed)
    /\ Unwrap(completed).outcome = "cache_hit"
    /\ cache_hits = 2 /\ cache_misses = 1
    /\ Len(RecordTtls(Unwrap(Unwrap(completed).response))) = 2
    /\ Unwrap(completed).now - Unwrap(Unwrap(completed).object).cache_time >= 1

(* C18: a request buffer that does not decode gets no reply, and the step  *)
(* that drops it changes neither the cache, the local table nor a counter  *)
(* and starts no upstream transaction; a request that decodes gets the     *)
(* encoding of its response, or, when that encode fails, the encoding of   *)
(* the SERVFAIL built from the request, and no reply only when that encode *)
(* fails as well.                                                          *)
C18_ReplyUnlessUndecodableOrFallbackFails ==
    [][IsSome(completed') =>
          LET c == Unwrap(completed')
          IN  /\ ~Decodable(c) =>
                   /\ c.reply = None
                   /\ c.upstream = None
                   /\ pc[c.handler] = "idle"
                   /\ UNCHANGED <<cache, local_domain_cache, cache_hits,
                                  cache_misses, upstream_errors, doh_response>>
              /\ Decodable(c) =>
                   /\ c.encode \in EncodeResults
                   /\ c.encode = "ok" =>
                         c.reply = Some(Wire(Unwrap(c.response)))
                   /\ c.encode = "error_then_ok" =>
                         /\ IsSome(c.reply)
                         /\ Unwrap(c.reply).wire = "dns"
                         /\ IsServFailOf(Unwrap(Unwrap(c.reply).message),
                                         RequestOf(c))
                   /\ c.encode = "error_then_error" => c.reply = None]_vars

(* The response of a miss was cached, did not encode, and the client got   *)
(* the fallback SERVFAIL.                                                  *)
C18_Witness ==
    /\ IsSome(completed)
    /\ Unwrap(completed).outcome = "cached"
    /\ Unwrap(completed).encode = "error_then_ok"
    /\ IsSome(Unwrap(completed).reply)
    /\ requests = 2

(* C19: the message clamp_and_get_min_ttl_seconds returned, clamped again  *)
(* under the same configuration, has the same record TTLs, and the second  *)
(* pass reports the minimum the first one reported (the cache_duration of  *)
(* the entry when the response was cached).                                *)
C19_ClampTwiceIsClampOnce ==
    (/\ IsSome(completed)
     /\ IsSome(Unwrap(completed).upstream)
     /\ CacheableResponseCode(Unwrap(Unwrap(completed).upstream).response_code))
    => LET c     == Unwrap(completed)
           once  == clamp_and_get_min_ttl_seconds(Unwrap(c.upstream), configuration)
           twice == clamp_and_get_min_ttl_seconds(Unwrap(c.response), configuration)
       IN  /\ RecordTtls(Unwrap(c.response)) = RecordTtls(once.message)
           /\ RecordTtls(twice.message) = RecordTtls(Unwrap(c.response))
           /\ twice.min_ttl_seconds = once.min_ttl_seconds
           /\ c.outcome = "cached" =>
                 twice.min_ttl_seconds = Unwrap(c.object).cache_duration

(* A cached response of two records, one raised to clamp_min_ttl_seconds   *)
(* and one lowered to clamp_max_ttl_seconds.                               *)
C19_Witness ==
    /\ IsSome(completed)
    /\ Unwrap(completed).outcome = "cached"
    /\ LET u == RecordTtls(Unwrap(Unwrap(completed).upstream))
       IN  /\ Len(u) = 2
           /\ \E i \in 1..2 : u[i] < configuration.clamp_min_ttl_seconds
           /\ \E i \in 1..2 : u[i] > configuration.clamp_max_ttl_seconds

(* The minimum of the clamped TTLs of the records of u, and                *)
(* clamp_min_ttl_seconds when u has no record.                             *)
MinClampedTtl(u) ==
    LET ttls == RecordTtls(u)
    IN  IF ttls = <<>> THEN configuration.clamp_min_ttl_seconds
        ELSE CHOOSE m \in {ClampOf(ttls[i]) : i \in 1..Len(ttls)} :
                \A i \in 1..Len(ttls) : m <= ClampOf(ttls[i])

(* The cacheability gate on the upstream response u of a request of key k. *)
GateOpen(u, k) ==
    /\ u.response_code \in {"NoError", "NXDomain"}
    /\ MinClampedTtl(u) > 0
    /\ ValidName(k.name)

(* C20: the upstream response of a miss that passes the cacheability gate  *)
(* (and no other) goes on to the put; the put leaves in the cache, under   *)
(* the key of the request, an entry whose min_ttl is the minimum clamped   *)
(* TTL and whose message is the upstream response with clamped TTLs, and   *)
(* the reply is that message under the id of the request; a query with     *)
(* the same key that finds the entry in the cache goes on with it, and if  *)
(* the entry is not expired when the handler reads the clock it is         *)
(* answered from the entry, without a miss and without an upstream call.   *)
C20_MissCachedThenServedFromCache ==
    [][\A h \in Handlers :
        /\ (pc[h] = "doh" /\ pc'[h] = "put") =>
              /\ GateOpen(Unwrap(doh_response'[h]), CacheKeyOf(h))
              /\ cache' = cache
        /\ (/\ pc[h] = "doh" /\ pc'[h] = "idle"
            /\ IsSome(Unwrap(completed').upstream)) =>
              ~GateOpen(Unwrap(Unwrap(completed').upstream), CacheKeyOf(h))
        /\ (pc[h] = "put" /\ pc'[h] # "put") =>
              LET u == Unwrap(doh_response[h])
                  k == CacheKeyOf(h)
                  c == Unwrap(completed')
                  o == Unwrap(c.object)
              IN  /\ IsSome(completed') /\ c.handler = h /\ c.outcome = "cached"
                  /\ Cache_get(cache', k) = Some(o)
                  /\ o.cache_duration = MinClampedTtl(u)
                  /\ o.cache_duration > 0
                  /\ o.cache_time <= clock
                  /\ RecordsClamped(o.message, u)
                  /\ o.message.queries = u.queries
                  /\ o.message.response_code = u.response_code
                  /\ c.reply = Some(Wire([o.message EXCEPT
                                             !.id = RequestMessageOf(h).id]))
        /\ (pc[h] = "cache_get" /\ pc'[h] # "cache_get"
                /\ InCache(cache, CacheKeyOf(h))) =>
              /\ pc'[h] = "expired"
              /\ cache_object'[h] = Cache_get(cache, CacheKeyOf(h))
              /\ cache_misses' = cache_misses
        /\ (pc[h] = "expired" /\ pc'[h] # "expired"
                /\ ~expired(Unwrap(cache_object[h]), clock)) =>
              /\ pc'[h] = "adjust"
              /\ cache_object'[h] = cache_object[h]
              /\ cache_misses' = cache_misses
        /\ (pc[h] = "adjust" /\ pc'[h] # "adjust"
                /\ ~expired(Unwrap(cache_object[h]), clock)) =>
              /\ ServedFromCache(h)
              /\ Unwrap(completed').object = cache_object[h]
              /\ Unwrap(completed').upstream = None
              /\ IsSome(Unwrap(completed').reply)
              /\ cache_misses' = cache_misses
              /\ cache_hits' = cache_hits + 1]_vars

(* The second of two requests with the same query is answered from the     *)
(* entry the first one, a miss, put in the cache: an entry of two records  *)
(* whose min_ttl is the smaller of their clamped TTLs.                     *)
C20_Witness ==
    /\ IsSome(completed)
    /\ Unwrap(completed).outcome = "cache_hit"
    /\ requests = 2 /\ cache_misses = 1 /\ cache_hits = 1
    /\ LET o == Unwrap(Unwrap(completed).object)
       IN  /\ Len(RecordTtls(o.message)) = 2
           /\ \E i \in 1..2 : RecordTtls(o.message)[i] > o.cache_duration
           /\ \E i \in 1..2 : RecordTtls(o.message)[i] = o.cache_duration

(* C21: a handler served from the cache replies with the message of its    *)
(* own copy of the entry, under its own request id and with every TTL the  *)
(* stored TTL less the seconds the entry spent in the cache; the step      *)
(* changes neither the cache nor what the other handler holds; the copy a  *)
(* handler got is the entry the cache held at the get and stays as it is   *)
(* through the steps of the other handler, the puts and the purges; and no *)
(* stored message ever carries the id of a request.                        *)
C21_ConcurrentHitsIsolated ==
    [][/\ \A h \in Handlers :
            /\ ServedFromCache(h) =>
                  LET c == Unwrap(completed')
                      o == Unwrap(cache_object[h])
                      r == Unwrap(c.response)
                  IN  /\ c.object = cache_object[h]
                      /\ r.id = RequestIdOf[h]
                      /\ RequestOf(c).id = RequestIdOf[h]
                      /\ c.reply = Some(Wire(r))
                      /\ RecordsDecremented(r, o.message, clock - o.cache_time)
                      /\ cache' = cache
                      /\ \A g \in Handlers \ {h} :
                            /\ cache_object'[g] = cache_object[g]
                            /\ request'[g] = request[g]
                            /\ pc'[g] = pc[g]
            /\ (pc[h] = "cache_get" /\ pc'[h] = "expired") =>
                  /\ cache_object'[h] = Cache_get(cache, CacheKeyOf(h))
                  /\ cache' = cache
            /\ (pc[h] \in {"expired", "adjust"} /\ pc'[h] \in {"expired", "adjust"}) =>
                  /\ cache_object'[h] = cache_object[h]
                  /\ request'[h] = request[h]
       /\ \A i \in 1..Len(cache') :
            \A h \in Handlers : cache'[i].object.message.id # RequestIdOf[h]
      ]_vars

(* One handler is answered from an entry at least a second old while the   *)
(* other handler holds a copy of the same entry in its lookup.             *)
C21_Witness ==
    /\ IsSome(completed)
    /\ Unwrap(completed).outcome = "cache_hit"
    /\ Unwrap(completed).now - Unwrap(Unwrap(completed).object).cache_time >= 1
    /\ \E g \in Handlers \ {Unwrap(completed).handler} :
          /\ pc[g] \in {"expired", "adjust"}
          /\ cache_object[g] = Unwrap(completed).object
          /\ RequestMessageOf(g).id # RequestOf(Unwrap(completed)).id

(* The smallest TTL over the records of message m, which has a record.     *)
MinRecordTtl(m) ==
    LET ttls == RecordTtls(m)
    IN  CHOOSE v \in {ttls[i] : i \in 1..Len(ttls)} :
            \A i \in 1..Len(ttls) : v <= ttls[i]

(* Every entry of entries has min_ttl > 0, the smallest TTL of its records *)
(* when its message has records.                                           *)
MinTtlIsMinOfRecords(entries) ==
    \A i \in 1..Len(entries) :
        LET o == entries[i].object
        IN  /\ o.cache_duration > 0
            /\ RecordTtls(o.message) # <<>> =>
                  o.cache_duration = MinRecordTtl(o.message)

(* Handler h leaves the TTL adjustment of its lookup.                      *)
LeavesAdjust(h) == pc[h] = "adjust" /\ pc'[h] # "adjust"

(* C22 as claimed: every entry in the cache has min_ttl > 0 equal to the   *)
(* minimum TTL of its records, and a lookup that passed the expiry check   *)
(* is never demoted to a miss at the TTL adjustment and returns record     *)
(* TTLs of at least 1.                                                     *)
C22_NeverDemotedTtlAtLeastOne ==
    [][/\ MinTtlIsMinOfRecords(cache')
       /\ \A h \in Handlers :
            LeavesAdjust(h) =>
                /\ ServedFromCache(h)
                /\ \A i \in 1..Len(RecordTtls(Unwrap(Unwrap(completed').response))) :
                      RecordTtls(Unwrap(Unwrap(completed').response))[i] >= 1
      ]_vars

(* C22, amended: every entry in the cache has min_ttl > 0, the minimum TTL *)
(* of its records when it has records and clamp_min_ttl_seconds when it    *)
(* has none; at the TTL adjustment, with elapsed the whole seconds between *)
(* inserted_at and the clock read of duration_in_cache, an entry with      *)
(* elapsed < min_ttl is served with every record TTL at least 1, an entry  *)
(* with records and elapsed = min_ttl is served with a record TTL of 0,    *)
(* an entry with records and elapsed > min_ttl is demoted to a miss, and   *)
(* an entry without records is served whatever elapsed is.                 *)
C22_DemotedOnlyPastMinTtl ==
    [][/\ MinTtlIsMinOfRecords(cache')
       /\ \A i \in 1..Len(cache') :
            RecordTtls(cache'[i].object.message) = <<>> =>
                cache'[i].object.cache_duration = configuration.clamp_min_ttl_seconds
       /\ \A h \in Handlers :
            LeavesAdjust(h) =>
                LET o       == Unwrap(cache_object[h])
                    elapsed == clock - o.cache_time
                    ttls    == RecordTtls(o.message)
                    r       == RecordTtls(Unwrap(Unwrap(completed').response))
                IN  /\ elapsed < o.cache_duration =>
                          /\ ServedFromCache(h)
                          /\ \A i \in 1..Len(r) : r[i] >= 1
                    /\ (elapsed = o.cache_duration /\ ttls # <<>>) =>
                          /\ ServedFromCache(h)
                          /\ \E i \in 1..Len(r) : r[i] = 0
                    /\ (elapsed > o.cache_duration /\ ttls # <<>>) =>
                          /\ pc'[h] = "doh"
                          /\ cache_misses' = cache_misses + 1
                          /\ cache_hits' = cache_hits
                    /\ ttls = <<>> => ServedFromCache(h)
      ]_vars

(* A hit on an entry of two records that passed the expiry check and had   *)
(* spent min_ttl seconds in the cache when duration_in_cache read the      *)
(* clock: one record is returned with TTL 0.                               *)
C22_Witness ==
    /\ IsSome(completed)
    /\ Unwrap(completed).outcome = "cache_hit"
    /\ LET c == Unwrap(completed)
           o == Unwrap(c.object)
       IN  /\ c.now - o.cache_time = o.cache_duration
           /\ Len(RecordTtls(o.message)) = 2
           /\ \E i \in 1..2 : RecordTtls(Unwrap(c.response))[i] = 0
           /\ \E i \in 1..2 : RecordTtls(Unwrap(c.response))[i] > 0

(* The cache holds an entry for name made at time c with min_ttl d.        *)
HoldsEntry(name, c, d) ==
    \E i \in 1..Len(cache) :
        /\ cache[i].key.name = name
        /\ cache[i].object.cache_time = c
        /\ cache[i].object.cache_duration = d

(* C23: the purger's pop is possible in every state, and when              *)
(* max_purges_per_timer_pop >= 1 and the purger is scheduled fairly, an    *)
(* entry that is in the cache and expired is eventually not in the cache   *)
(* any more, whatever the handlers do meanwhile.                           *)
C23_ExpiredEntryEventuallyRemoved ==
    /\ [](ENABLED run_periodic_timer)
    /\ \A name \in PurgeNames, c \in 0..MaxTime, d \in 1..MaxTime :
          []((/\ configuration.max_purges_per_timer_pop >= 1
              /\ HoldsEntry(name, c, d)
              /\ clock - c >= d)
             => <>(~HoldsEntry(name, c, d)))

(* With one removal a pop, the cache holds two expired entries: the second *)
(* one is still there after the next pop.                                  *)
C23_Witness ==
    /\ configuration.max_purges_per_timer_pop = 1
    /\ Len(cache) = 2
    /\ ExpiredAt(cache, clock) = {1, 2}
    /\ requests = MaxRequests
    /\ \A h \in Handlers : pc[h] = "idle"

(* Messages m and n differ at most in their transaction id.                *)
SameButId(m, n) == [m EXCEPT !.id = n.id] = n

(* C24: the message sent upstream for a request is the request with id 0   *)
(* and nothing else changed; two requests in flight that differ only in    *)
(* their id are sent upstream as the same message, and the upstream's      *)
(* answer comes back under id 0; the request the handler holds keeps its   *)
(* id through the upstream transaction, the reply is built under that id,  *)
(* and the entry is put under the key of that request.                     *)
C24_UpstreamRequestHasIdZero ==
    [][\A h \in Handlers :
        /\ pc[h] = "doh" =>
              LET q == RequestMessageOf(h)
                  u == doh_request_message(q)
              IN  /\ u.id = 0
                  /\ SameButId(u, q)
                  /\ q.id = RequestIdOf[h]
                  /\ \A g \in Handlers :
                        (pc[g] = "doh" /\ SameButId(RequestMessageOf(g), q)) =>
                            doh_request_message(RequestMessageOf(g)) = u
        /\ (pc[h] = "doh" /\ pc'[h] = "put") =>
              /\ request'[h] = request[h]
              /\ Unwrap(doh_response'[h]).id = 0
              /\ Unwrap(doh_response'[h]).queries = RequestMessageOf(h).queries
        /\ (pc[h] \in {"doh", "put"} /\ pc'[h] = "idle") =>
              LET c == Unwrap(completed')
              IN  /\ Some(c.request) = request[h]
                  /\ Unwrap(c.response).id = RequestIdOf[h]
                  /\ IsSome(c.upstream) => Unwrap(c.upstream).id = 0
                  /\ c.outcome = "cached" =>
                        Cache_get(cache', get_cache_key(RequestMessageOf(h)))
                            = c.object
      ]_vars

(* A handler's request was answered by the upstream under id 0 and cached, *)
(* with the reply under the request's own id, while the other handler's    *)
(* request, the same but for its id, is with the upstream.                 *)
C24_Witness ==
    /\ IsSome(completed)
    /\ Unwrap(completed).outcome = "cached"
    /\ Unwrap(Unwrap(completed).upstream).id = 0
    /\ Unwrap(Unwrap(completed).response).id = RequestOf(Unwrap(completed)).id
    /\ \E g \in Handlers :
          /\ pc[g] = "doh"
          /\ RequestMessageOf(g).id # RequestOf(Unwrap(completed)).id
          /\ SameButId(RequestMessageOf(g), RequestOf(Unwrap(completed)))

====
